---- MODULE Spec2Model ----
(***************************************************************************)
(* A model of src/app.py, the "Global Screener": the Wikipedia constituent *)
(* scraper (get_tickers_from_wikipedia), the per-index identifier handling *)
(* and the capitalisation ranking (get_top_tickers), the valuation engine  *)
(* (get_historical_valuation), the batch loop (run_analysis) and the       *)
(* module-level logic that stores the result table (section 5).            *)
(*                                                                         *)
(* Strings that the code inspects character by character are sequences of  *)
(* one-character strings; numbers that the code divides are exact          *)
(* rationals <<numerator, denominator>> with a positive denominator.       *)
(***************************************************************************)
EXTENDS Integers, Sequences, FiniteSets, TLC

VARIABLES
    nPc, nSym, nIndex, nOnce, nTwice,
    rPc, rSuffix, rFails, tables, rIdx, found_tickers, rResult,
    kPc, tickers, limit, fast_info, market_caps, kI, kJ, sorted_tickers,
    ePc, ticker, info, financials, history, eRaises,
    currency, fwd_pe, eps_series, eK, pe_ratios, peYears, eResult,
    bPc, idx, top, worlds, data, bI, calls, bar, raised, session, message

normVars == <<nPc, nSym, nIndex, nOnce, nTwice>>
resVars == <<rPc, rSuffix, rFails, tables, rIdx, found_tickers, rResult>>
rankVars == <<kPc, tickers, limit, fast_info, market_caps, kI, kJ, sorted_tickers>>
evalVars ==
    <<ePc, ticker, info, financials, history, eRaises,
      currency, fwd_pe, eps_series, eK, pe_ratios, peYears, eResult>>
batchVars == <<bPc, idx, top, worlds, data, bI, calls, bar, raised, session, message>>
vars == <<normVars, resVars, rankVars, evalVars, batchVars>>

(***************************************************************************)
(* Each specification below exercises one part of the program; the parts   *)
(* it does not exercise stay in the idle state given here.                 *)
(***************************************************************************)
NormIdle ==
    /\ nPc = "off" /\ nSym = <<>> /\ nIndex = "S&P 500 (USA)"
    /\ nOnce = <<>> /\ nTwice = <<>>

ResIdle ==
    /\ rPc = "off" /\ rSuffix = <<>> /\ rFails = FALSE /\ tables = <<>>
    /\ rIdx = 0 /\ found_tickers = <<>> /\ rResult = <<>>

RankIdle ==
    /\ kPc = "off" /\ tickers = <<>> /\ limit = 0 /\ fast_info = <<>>
    /\ market_caps = <<>> /\ kI = 0 /\ kJ = 0 /\ sorted_tickers = <<>>

EvalIdle ==
    /\ ePc = "off" /\ ticker = <<>> /\ info = <<>> /\ financials = <<>>
    /\ history = <<>> /\ eRaises = "none" /\ currency = "" /\ fwd_pe = <<>>
    /\ eps_series = <<>> /\ eK = 0 /\ pe_ratios = <<>> /\ peYears = <<>>
    /\ eResult = <<>>

BatchIdle ==
    /\ bPc = "off" /\ idx = "S&P 500 (USA)" /\ top = <<>> /\ worlds = <<>>
    /\ data = <<>> /\ bI = 0 /\ calls = <<>> /\ bar = <<>> /\ raised = FALSE
    /\ session = <<>> /\ message = ""

(***************************************************************************)
(* Bounds of the model.                                                    *)
(***************************************************************************)
MaxSymLen == 5
MaxTables == 3
MaxCandidates == 3
MaxLimit == 3
MaxYears == 2
MaxSelection == 2

(***************************************************************************)
(* Values handed over by the data source: a lookup raises, a key is        *)
(* missing, or the value is None, a number or a string.                    *)
(***************************************************************************)
Raises == [kind |-> "raise", v |-> 0, s |-> ""]

Missing == [kind |-> "missing", v |-> 0, s |-> ""]

Null == [kind |-> "None", v |-> 0, s |-> ""]

Num(n) == [kind |-> "num", v |-> n, s |-> ""]

Str(x) == [kind |-> "str", v |-> 0, s |-> x]

\* dict.get(key, default): the default only when the key is missing
Get(field, default) == IF field.kind = "missing" THEN default ELSE field

(***************************************************************************)
(* Exact rationals [n, d], d > 0, in lowest terms.                         *)
(***************************************************************************)
Abs(x) == IF x < 0 THEN -x ELSE x

RECURSIVE GCD(_, _)
GCD(a, b) == IF b = 0 THEN a ELSE GCD(b, a % b)

Rat(n, d) ==
    LET g == GCD(Abs(n), Abs(d))
        sgn == IF d < 0 THEN -1 ELSE 1
    IN [n |-> sgn * (n \div g), d |-> sgn * (d \div g)]

RAdd(a, b) == Rat(a.n * b.d + b.n * a.d, a.d * b.d)

RSub(a, b) == Rat(a.n * b.d - b.n * a.d, a.d * b.d)

RMul(a, b) == Rat(a.n * b.n, a.d * b.d)

\* a / b for b # 0
RDiv(a, b) == Rat(a.n * b.d, a.d * b.n)

RInt(k) == [n |-> k, d |-> 1]

RECURSIVE RSum(_)
RSum(seq) == IF seq = <<>> THEN RInt(0) ELSE RAdd(Head(seq), RSum(Tail(seq)))

RECURSIVE Sum(_)
Sum(seq) == IF seq = <<>> THEN 0 ELSE Head(seq) + Sum(Tail(seq))

\* the arithmetic mean of a non-empty sequence of rationals
RMean(seq) == RDiv(RSum(seq), RInt(Len(seq)))

(***************************************************************************)
(* Python string primitives.                                               *)
(***************************************************************************)
RECURSIVE Replace(_, _, _)
\* str.replace(old, new) for a non-empty old: leftmost, non-overlapping.
Replace(s, old, new) ==
    IF Len(s) < Len(old) THEN s
    ELSE IF SubSeq(s, 1, Len(old)) = old
         THEN new \o Replace(SubSeq(s, Len(old) + 1, Len(s)), old, new)
         ELSE <<Head(s)>> \o Replace(Tail(s), old, new)

\* str.endswith(suffix)
EndsWith(s, suffix) ==
    /\ Len(suffix) <= Len(s)
    /\ SubSeq(s, Len(s) - Len(suffix) + 1, Len(s)) = suffix

RECURSIVE LStrip(_)
LStrip(s) == IF s # <<>> /\ Head(s) = " " THEN LStrip(Tail(s)) ELSE s

RECURSIVE RStrip(_)
RStrip(s) ==
    IF s # <<>> /\ s[Len(s)] = " " THEN RStrip(SubSeq(s, 1, Len(s) - 1)) ELSE s

\* str.strip()
Strip(s) == RStrip(LStrip(s))

\* "sub in s"
Contains(s, sub) ==
    \E k \in 1..(Len(s) - Len(sub) + 1) : SubSeq(s, k, k + Len(sub) - 1) = sub

LowerChar(c) ==
    CASE c = "N" -> "n"
      [] c = "A" -> "a"
      [] c = "T" -> "t"
      [] c = "O" -> "o"
      [] c = "L" -> "l"
      [] c = "P" -> "p"
      [] OTHER -> c

\* str.lower()
Lower(s) == [k \in 1..Len(s) |-> LowerChar(s[k])]

(***************************************************************************)
(* Identifier handling: the per-entry part of get_tickers_from_wikipedia   *)
(* and the per-index part of get_top_tickers.                              *)
(***************************************************************************)
Indices ==
    { "S&P 500 (USA)", "Nasdaq 100 (USA)", "TSX 60 (Canada)", "CAC 40 (France)",
      "DAX 40 (Allemagne)", "FTSE 100 (UK)", "SMI 20 (Suisse)", "Nifty 50 (Inde)" }

\* the index_suffix argument get_top_tickers passes for each index
IndexSuffix(index_name) ==
    CASE index_name = "TSX 60 (Canada)"    -> <<".", "T", "O">>
      [] index_name = "CAC 40 (France)"    -> <<".", "P", "A">>
      [] index_name = "DAX 40 (Allemagne)" -> <<".", "D", "E">>
      [] index_name = "FTSE 100 (UK)"      -> <<".", "L">>
      [] index_name = "SMI 20 (Suisse)"    -> <<".", "S", "W">>
      [] index_name = "Nifty 50 (Inde)"    -> <<".", "N", "S">>
      [] OTHER                             -> <<>>

\* the entries the scraper drops: blank cells and the null marker
SkipEntry(t) == Lower(Strip(t)) = <<"n", "a", "n">> \/ Strip(t) = <<>>

\* one kept entry of the matching column, as appended to found_tickers
WikiTicker(t, index_suffix) ==
    LET s == Strip(t) IN
    IF index_suffix = <<".", "T", "O">>
    THEN s
    ELSE IF index_suffix # <<>> /\ ~EndsWith(s, index_suffix)
         THEN s \o index_suffix
         ELSE s

\* one identifier of the list get_top_tickers ranks
TopTicker(index_name, t) ==
    CASE index_name = "S&P 500 (USA)" -> Replace(t, <<".">>, <<"-">>)
      [] index_name = "TSX 60 (Canada)" ->
            Replace(Replace(t, <<".", "T", "O">>, <<>>), <<".">>, <<"-">>)
                \o <<".", "T", "O">>
      [] OTHER -> t

\* the TSX branch also drops every entry that contains "nan"
TopSkip(index_name, t) ==
    index_name = "TSX 60 (Canada)" /\ Contains(Lower(t), <<"n", "a", "n">>)

normalize(s, index_name) ==
    TopTicker(index_name, WikiTicker(s, IndexSuffix(index_name)))

(***************************************************************************)
(* get_tickers_from_wikipedia: the scan of the fetched tables.             *)
(***************************************************************************)
Threshold == 10

possible_cols ==
    { <<"S", "y", "m", "b", "o", "l">>,
      <<"T", "i", "c", "k", "e", "r">>,
      <<"C", "o", "d", "e">>,
      <<"S", "e", "c", "u", "r", "i", "t", "y", " ", "S", "y", "m", "b", "o", "l">>,
      <<"S", "t", "o", "c", "k", " ", "s", "y", "m", "b", "o", "l">>,
      <<"S", "e", "c", "u", "r", "i", "t", "i", "e", "s", " ", "C", "o", "d", "e">> }

RECURSIVE FirstMatch(_, _)
\* the first column whose stripped header is a ticker synonym (0: none)
FirstMatch(columns, k) ==
    IF k > Len(columns) THEN 0
    ELSE IF Strip(columns[k].name) \in possible_cols THEN k
         ELSE FirstMatch(columns, k + 1)

ColMatch(df) == FirstMatch(df.columns, 1)

RECURSIVE KeptEntries(_, _)
\* the entries one matching column adds to found_tickers, in order
KeptEntries(raw_list, index_suffix) ==
    IF raw_list = <<>> THEN <<>>
    ELSE IF SkipEntry(Head(raw_list))
         THEN KeptEntries(Tail(raw_list), index_suffix)
         ELSE <<WikiTicker(Head(raw_list), index_suffix)>>
                  \o KeptEntries(Tail(raw_list), index_suffix)

\* the entries table df contributes (none without a matching column)
TableEntries(df, index_suffix) ==
    IF ColMatch(df) = 0 THEN <<>>
    ELSE KeptEntries(df.columns[ColMatch(df)].cells, index_suffix)

\* found_tickers after table df has been scanned
ScanInto(found, df, index_suffix) == found \o TableEntries(df, index_suffix)

\* Fixtures: a table is named by its position k, the header of its second
\* column and the number of real cells of that column; the column also holds
\* a null marker and a blank cell.
DigitChars == <<"0", "1", "2", "3", "4", "5", "6", "7", "8", "9">>

Digit(n) == DigitChars[(n % 10) + 1]

Cell(k, j) == <<"K", Digit(k), "R", Digit(j \div 10), Digit(j)>>

HeaderFixtures ==
    { <<"S", "y", "m", "b", "o", "l">>,
      <<" ", "T", "i", "c", "k", "e", "r", " ">>,
      <<"s", "y", "m", "b", "o", "l">>,
      <<"C", "o", "m", "p", "a", "n", "y">> }

RowCounts == {0, 2, Threshold, Threshold + 1}

TableFixture(k, header, rows) ==
    [columns |->
        << [name |-> <<"C", "o", "m", "p", "a", "n", "y">>,
            cells |-> [j \in 1..(rows + 2) |-> <<"x">>]],
           [name |-> header,
            cells |-> <<<<"n", "a", "N">>>> \o [j \in 1..rows |-> Cell(k, j)]
                          \o << <<" ">> >>] >>]

ResSuffixes == { <<>>, <<".", "L">>, <<".", "T", "O">> }

InitResolve ==
    /\ rPc = "fetch"
    /\ rSuffix \in ResSuffixes
    /\ rFails \in BOOLEAN
    /\ \E n \in 0..MaxTables :
          \E h \in [1..n -> HeaderFixtures], c \in [1..n -> RowCounts] :
              tables = [k \in 1..n |-> TableFixture(k, h[k], c[k])]
    /\ rIdx = 0
    /\ found_tickers = <<>>
    /\ rResult = <<>>

\* requests.get / pd.read_html raise: the except clause returns []
FetchFails ==
    /\ rPc = "fetch" /\ rFails
    /\ rResult' = <<>>
    /\ rPc' = "done"
    /\ UNCHANGED <<rSuffix, rFails, tables, rIdx, found_tickers>>

FetchOk ==
    /\ rPc = "fetch" /\ ~rFails
    /\ rPc' = "scan"
    /\ rIdx' = 1
    /\ UNCHANGED <<rSuffix, rFails, tables, found_tickers, rResult>>

\* one iteration of "for df in tables"
ScanTable ==
    /\ rPc = "scan" /\ rIdx <= Len(tables)
    /\ found_tickers' = ScanInto(found_tickers, tables[rIdx], rSuffix)
    /\ IF ColMatch(tables[rIdx]) # 0 /\ Len(found_tickers') > Threshold
       THEN rResult' = found_tickers' /\ rPc' = "done" /\ rIdx' = rIdx
       ELSE rResult' = rResult /\ rPc' = "scan" /\ rIdx' = rIdx + 1
    /\ UNCHANGED <<rSuffix, rFails, tables>>

\* the loop ran out of tables: "return found_tickers"
ScanEnd ==
    /\ rPc = "scan" /\ rIdx > Len(tables)
    /\ rResult' = found_tickers
    /\ rPc' = "done"
    /\ UNCHANGED <<rSuffix, rFails, tables, rIdx, found_tickers>>

NextResolve ==
    \/ FetchFails /\ UNCHANGED <<normVars, rankVars, evalVars, batchVars>>
    \/ FetchOk /\ UNCHANGED <<normVars, rankVars, evalVars, batchVars>>
    \/ ScanTable /\ UNCHANGED <<normVars, rankVars, evalVars, batchVars>>
    \/ ScanEnd /\ UNCHANGED <<normVars, rankVars, evalVars, batchVars>>

InitResolveOnly == InitResolve /\ NormIdle /\ RankIdle /\ EvalIdle /\ BatchIdle

SpecResolve == InitResolveOnly /\ [][NextResolve]_vars

\* the tables with a matching column that yields more than Threshold entries
LongTables ==
    { k \in 1..Len(tables) : Len(TableEntries(tables[k], rSuffix)) > Threshold }

FirstLong == CHOOSE k \in LongTables : \A m \in LongTables : k <= m

InSeq(x, seq) == \E k \in 1..Len(seq) : seq[k] = x

\* C10: the resolver returns the entries of the first table whose matching
\* column yields more than Threshold entries, and no entry of a short matching
\* table scanned before it; without a matching table, or when the fetch
\* fails, it returns the empty list.
C10_FirstLongTableOnly ==
    rPc = "done" =>
        /\ rFails => rResult = <<>>
        /\ (~rFails /\ \A k \in 1..Len(tables) : ColMatch(tables[k]) = 0)
              => rResult = <<>>
        /\ (~rFails /\ LongTables # {}) =>
              /\ rResult = TableEntries(tables[FirstLong], rSuffix)
              /\ \A k \in 1..(FirstLong - 1) :
                    \A e \in 1..Len(TableEntries(tables[k], rSuffix)) :
                        ~InSeq(TableEntries(tables[k], rSuffix)[e], rResult)

(***************************************************************************)
(* get_top_tickers, lines 85-103: the capitalisation ranking.              *)
(***************************************************************************)
batch_size == 50

Min(a, b) == IF a <= b THEN a ELSE b

\* Python truthiness of a looked-up value (None and 0 are falsy)
Truthy(x) == x.kind = "num" /\ x.v # 0

HasKey(d, t) == \E k \in 1..Len(d) : d[k].t = t

\* d[t] = mcap on a dict that keeps insertion order
DictSet(d, t, mcap) ==
    IF HasKey(d, t)
    THEN [k \in 1..Len(d) |-> IF d[k].t = t THEN [t |-> t, mcap |-> mcap] ELSE d[k]]
    ELSE Append(d, [t |-> t, mcap |-> mcap])

\* the body of the inner loop for ticker t, when the lookup does not raise
StoreCap(d, t, mcap) == IF Truthy(mcap) THEN DictSet(d, t, mcap.v) ELSE d

RECURSIVE InsertDesc(_, _)
\* insert e after every element that is at least as large (stable, descending)
InsertDesc(sorted, e) ==
    IF sorted = <<>> THEN <<e>>
    ELSE IF Head(sorted).mcap >= e.mcap
         THEN <<Head(sorted)>> \o InsertDesc(Tail(sorted), e)
         ELSE <<e>> \o sorted

RECURSIVE SortDesc(_)
\* sorted(market_caps, key=market_caps.get, reverse=True), entries kept
SortDesc(d) ==
    IF d = <<>> THEN <<>>
    ELSE InsertDesc(SortDesc(SubSeq(d, 1, Len(d) - 1)), d[Len(d)])

\* seq[:n] for n >= 0
Take(seq, n) == SubSeq(seq, 1, Min(n, Len(seq)))

Keys(d) == [k \in 1..Len(d) |-> d[k].t]

safe_limit == Min(limit, Len(tickers))

\* a variant of SortedTickers that forgets the truncation
SortedTickersUntruncated(d) == Keys(SortDesc(d))

\* sorted(...)[:safe_limit]
SortedTickers(d) == Take(Keys(SortDesc(d)), safe_limit)

Ids == {"AAA", "BBB", "CCC"}

\* what yf.Ticker(t).fast_info['market_cap'] does: raise, None, or a number
CapOutcomes == {Raises, Null, Num(0), Num(1), Num(2)}

InitRank ==
    /\ kPc = "start"
    /\ \E n \in 0..MaxCandidates : tickers \in [1..n -> Ids]
    /\ limit \in 0..MaxLimit
    /\ fast_info \in [Ids -> CapOutcomes]
    /\ \A t \in Ids :
          (\A k \in 1..Len(tickers) : tickers[k] # t) => fast_info[t] = Raises
    /\ market_caps = <<>>
    /\ kI = 0
    /\ kJ = 0
    /\ sorted_tickers = <<>>

\* "if not tickers: return []"
RankEmpty ==
    /\ kPc = "start" /\ tickers = <<>>
    /\ sorted_tickers' = <<>>
    /\ kPc' = "done"
    /\ UNCHANGED <<tickers, limit, fast_info, market_caps, kI, kJ>>

RankStart ==
    /\ kPc = "start" /\ tickers # <<>>
    /\ kPc' = "loop"
    /\ kI' = 0 /\ kJ' = 1
    /\ UNCHANGED <<tickers, limit, fast_info, market_caps, sorted_tickers>>

\* one iteration of "for t in batch", batch = tickers[kI : kI + batch_size]
LookupOne ==
    /\ kPc = "loop"
    /\ kJ <= batch_size /\ kI + kJ <= Len(tickers)
    /\ LET t == tickers[kI + kJ] IN
         market_caps' = IF fast_info[t] = Raises THEN market_caps
                        ELSE StoreCap(market_caps, t, fast_info[t])
    /\ kJ' = kJ + 1
    /\ UNCHANGED <<kPc, tickers, limit, fast_info, kI, sorted_tickers>>

\* the batch is exhausted: next value of "for i in range(0, len(tickers), 50)"
NextBatch ==
    /\ kPc = "loop"
    /\ kJ > batch_size \/ kI + kJ > Len(tickers)
    /\ kI + batch_size < Len(tickers) \/ kI + kJ > Len(tickers)
    /\ IF kI + batch_size < Len(tickers)
       THEN kI' = kI + batch_size /\ kJ' = 1 /\ kPc' = "loop"
       ELSE kI' = kI /\ kJ' = kJ /\ kPc' = "sort"
    /\ UNCHANGED <<tickers, limit, fast_info, market_caps, sorted_tickers>>

RankSort ==
    /\ kPc = "sort"
    /\ sorted_tickers' = SortedTickers(market_caps)
    /\ kPc' = "done"
    /\ UNCHANGED <<tickers, limit, fast_info, market_caps, kI, kJ>>

NextRank ==
    \/ RankEmpty /\ UNCHANGED <<normVars, resVars, evalVars, batchVars>>
    \/ RankStart /\ UNCHANGED <<normVars, resVars, evalVars, batchVars>>
    \/ LookupOne /\ UNCHANGED <<normVars, resVars, evalVars, batchVars>>
    \/ NextBatch /\ UNCHANGED <<normVars, resVars, evalVars, batchVars>>
    \/ RankSort /\ UNCHANGED <<normVars, resVars, evalVars, batchVars>>

InitRankOnly == InitRank /\ NormIdle /\ ResIdle /\ EvalIdle /\ BatchIdle

SpecRank == InitRankOnly /\ [][NextRank]_vars

Range(seq) == { seq[k] : k \in 1..Len(seq) }

NoDuplicates(seq) == \A a, b \in 1..Len(seq) : seq[a] = seq[b] => a = b

\* candidates whose lookup returned a number (getFastSize: number | absent)
Succeeded == { t \in Range(tickers) : fast_info[t].kind = "num" }

\* candidates whose lookup returned a number other than 0
Sized == { t \in Range(tickers) : fast_info[t].kind = "num" /\ fast_info[t].v # 0 }

\* seq lists, without repetition, a largest-first choice of Min(limit, |S|)
\* members of S
TopOf(seq, S) ==
    /\ NoDuplicates(seq)
    /\ Range(seq) \subseteq S
    /\ Len(seq) = Min(limit, Cardinality(S))
    /\ \A a, b \in 1..Len(seq) : a < b => fast_info[seq[a]].v >= fast_info[seq[b]].v
    /\ \A t \in S \ Range(seq) :
          \A a \in 1..Len(seq) : fast_info[seq[a]].v >= fast_info[t].v

\* C2 as stated: the ranking returns the candidates whose size lookup
\* succeeded, largest first, truncated to min(limit, number of successes).
C2_RankSucceeded ==
    kPc = "done" =>
        /\ TopOf(sorted_tickers, Succeeded)
        /\ Len(sorted_tickers) <= Min(limit, Len(tickers))

\* C2 amended: the ranking returns the candidates whose size lookup returned a
\* non-null, non-zero size, largest first, truncated to min(limit, number of
\* such candidates); its length never exceeds min(limit, len(candidates)).
C2_RankSized ==
    kPc = "done" =>
        /\ TopOf(sorted_tickers, Sized)
        /\ Sized = {} => sorted_tickers = <<>>
        /\ Len(sorted_tickers) <= Min(limit, Len(tickers))

\* C2 witness: three candidates, one lookup raised, the limit truncates the
\* two that were sized.
C2_Witness ==
    /\ kPc = "done"
    /\ Len(tickers) = 3
    /\ \E t \in Range(tickers) : fast_info[t] = Raises
    /\ Cardinality(Sized) = 2
    /\ limit = 1
    /\ Len(sorted_tickers) = 1

(***************************************************************************)
(* get_historical_valuation: the valuation engine.                         *)
(***************************************************************************)
\* "currency = info.get('currency', 'USD')"
Currency(inf) == Get(inf.currency, Str("USD")).s

\* "fwd_pe = info.get('forwardPE', info.get('trailingPE', None))"
FwdPe(inf) == Get(inf.forwardPE, Get(inf.trailingPE, Null))

\* "info.get('shortName', ticker)"
Name(inf, t) == IF inf.shortName.kind = "missing" THEN t ELSE inf.shortName.s

\* "financials.empty": no line item or no fiscal date
FinEmpty(f) == f.rows = <<>> \/ f.dates = <<>>

\* "'EPS' in str(c) or 'Earnings' in str(c)"
EpsLabel(label) ==
    \/ Contains(label, <<"E", "P", "S">>)
    \/ Contains(label, <<"E", "a", "r", "n", "i", "n", "g", "s">>)

RECURSIVE FirstEpsRow(_, _)
\* eps_cols[0]: the first line item with such a label (0: eps_cols is empty)
FirstEpsRow(rows, k) ==
    IF k > Len(rows) THEN 0
    ELSE IF EpsLabel(rows[k].label) THEN k ELSE FirstEpsRow(rows, k + 1)

RECURSIVE InsertByYear(_, _)
InsertByYear(sorted, e) ==
    IF sorted = <<>> THEN <<e>>
    ELSE IF Head(sorted).year <= e.year
         THEN <<Head(sorted)>> \o InsertByYear(Tail(sorted), e)
         ELSE <<e>> \o sorted

RECURSIVE SortIndex(_)
\* Series.sort_index(): ascending by fiscal date
SortIndex(series) ==
    IF series = <<>> THEN <<>>
    ELSE InsertByYear(SortIndex(SubSeq(series, 1, Len(series) - 1)), series[Len(series)])

\* "eps_data[eps_cols[0]].sort_index()"
EpsSeries(f) ==
    LET r == f.rows[FirstEpsRow(f.rows, 1)] IN
    SortIndex([k \in 1..Len(f.dates) |-> [year |-> f.dates[k], eps |-> r.vals[k]]])

\* "history.loc[mask, 'Close'].mean()" for a year with trading days
AvgClose(hist, year) == Rat(Sum(hist[year]), Len(hist[year]))

\* "if currency == 'GBp'"
MinorUnit(cur) == cur = "GBp"

\* a variant of AvgPrice that never applies the pence correction
AvgPriceUncorrected(hist, year, cur) == AvgClose(hist, year)

\* avg_price as used for the multiple, after the pence correction
AvgPrice(hist, year, cur) ==
    IF MinorUnit(cur) THEN RDiv(AvgClose(hist, year), RInt(100))
    ELSE AvgClose(hist, year)

\* a variant of KeepYear that only rejects a zero earnings figure
KeepYearNonZero(avg_price, eps) == avg_price.n # 0 /\ eps # 0

\* "if avg_price and eps > 0"
KeepYear(avg_price, eps) == avg_price.n # 0 /\ eps > 0

\* what one iteration of the loop over eps_series appends to pe_ratios
YearRatio(e, hist, cur) ==
    IF hist[e.year] = <<>> THEN <<>>
    ELSE IF KeepYear(AvgPrice(hist, e.year, cur), e.eps)
         THEN <<RDiv(AvgPrice(hist, e.year, cur), RInt(e.eps))>>
         ELSE <<>>

Absent(why) == [kind |-> "None", why |-> why]

\* a variant of AvgHistPe that forgets to divide by the number of years
AvgHistPeSum(ratios) == RSum(ratios)

\* "avg_hist_pe = sum(pe_ratios) / len(pe_ratios)"
AvgHistPe(ratios) == RDiv(RSum(ratios), RInt(Len(ratios)))

\* lines 176-196: the guards on pe_ratios and the emitted record
Emit(t, inf, fwd, ratios) ==
    IF ratios = <<>> THEN Absent("no_ratios")
    ELSE IF AvgHistPe(ratios).n = 0 THEN Absent("zero_average")
    ELSE [kind |-> "record",
          Ticker |-> t,
          Name |-> Name(inf, t),
          ForwardPE |-> fwd.v,
          AvgHistPE |-> AvgHistPe(ratios),
          PremiumDiscount |->
              RMul(RDiv(RSub(RInt(fwd.v), AvgHistPe(ratios)), AvgHistPe(ratios)),
                   RInt(100))]

RECURSIVE Ratios(_, _, _)
\* pe_ratios after the whole loop over eps_series
Ratios(series, hist, cur) ==
    IF series = <<>> THEN <<>>
    ELSE YearRatio(Head(series), hist, cur) \o Ratios(Tail(series), hist, cur)

\* a variant of get_historical_valuation without the enclosing try/except
EvaluateNoCatch(t, w) ==
    IF w.raises = "info" THEN [kind |-> "raise", why |-> "info"]
    ELSE IF FwdPe(w.info).kind = "None" THEN Absent("no_multiple")
    ELSE IF w.raises = "financials" THEN [kind |-> "raise", why |-> "financials"]
    ELSE IF FinEmpty(w.financials) THEN Absent("no_statements")
    ELSE IF FirstEpsRow(w.financials.rows, 1) = 0 THEN Absent("no_eps_line")
    ELSE IF w.raises = "history" THEN [kind |-> "raise", why |-> "history"]
    ELSE Emit(t, w.info, FwdPe(w.info),
              Ratios(EpsSeries(w.financials), w.history, Currency(w.info)))

\* get_historical_valuation(ticker) as one call, on the data w of the source
Evaluate(t, w) ==
    IF w.raises = "info" THEN Absent("exception")
    ELSE IF FwdPe(w.info).kind = "None" THEN Absent("no_multiple")
    ELSE IF w.raises = "financials" THEN Absent("exception")
    ELSE IF FinEmpty(w.financials) THEN Absent("no_statements")
    ELSE IF FirstEpsRow(w.financials.rows, 1) = 0 THEN Absent("no_eps_line")
    ELSE IF w.raises = "history" THEN Absent("exception")
    ELSE Emit(t, w.info, FwdPe(w.info),
              Ratios(EpsSeries(w.financials), w.history, Currency(w.info)))

Years == 2021..(2020 + MaxYears)

EpsValues == {-1, 0, 2}

CloseFixtures == { <<>>, <<0, 0>>, <<30, 50>> }

NetIncome == <<"N", "e", "t", " ", "I", "n", "c", "o", "m", "e">>

DilutedEPS == <<"D", "i", "l", "u", "t", "e", "d", " ", "E", "P", "S">>

RECURSIVE Descending(_)
\* the members of a set of years, latest first (the order of the statements)
Descending(S) ==
    IF S = {} THEN <<>>
    ELSE LET m == CHOOSE y \in S : \A z \in S : z <= y
         IN <<m>> \o Descending(S \ {m})

\* statements with a net-income line and, when withEps, a per-share line
Statements(dates, eps, withEps) ==
    [dates |-> dates,
     rows |-> <<[label |-> NetIncome, vals |-> [k \in 1..Len(dates) |-> 7]]>>
              \o (IF withEps
                  THEN <<[label |-> DilutedEPS,
                          vals |-> [k \in 1..Len(dates) |-> eps[dates[k]]]]>>
                  ELSE <<>>)]

EmptyStatements == [dates |-> <<>>, rows |-> <<>>]

FinancialsFixtures ==
    {EmptyStatements, Statements(Descending(Years), [y \in Years |-> 2], FALSE)}
    \cup { Statements(Descending(S), eps, TRUE) :
              S \in (SUBSET Years) \ {{}}, eps \in [Years -> EpsValues] }

InfoFixtures ==
    [currency : {Missing, Str("GBp"), Str("EUR")},
     forwardPE : {Missing, Null, Num(25)},
     trailingPE : {Missing, Null, Num(15)},
     shortName : {Missing}]

InitEval ==
    /\ ePc = "info"
    /\ ticker = <<"A", "A", ".", "L">>
    /\ info \in InfoFixtures
    /\ financials \in FinancialsFixtures
    /\ history \in [Years -> CloseFixtures]
    /\ eRaises \in {"none", "info", "financials", "history"}
    /\ eRaises # "none" =>
          /\ financials = EmptyStatements
          /\ history = [y \in Years |-> <<>>]
    /\ currency = ""
    /\ fwd_pe = Null
    /\ eps_series = <<>>
    /\ eK = 0
    /\ pe_ratios = <<>>
    /\ peYears = <<>>
    /\ eResult = Absent("running")

\* lines 110-120: the metadata and the multiple
EvalInfo ==
    /\ ePc = "info"
    /\ IF eRaises = "info"
       THEN /\ eResult' = Absent("exception") /\ ePc' = "done"
            /\ UNCHANGED <<currency, fwd_pe>>
       ELSE /\ currency' = Currency(info)
            /\ fwd_pe' = FwdPe(info)
            /\ IF FwdPe(info).kind = "None"
               THEN eResult' = Absent("no_multiple") /\ ePc' = "done"
               ELSE eResult' = eResult /\ ePc' = "earnings"
    /\ UNCHANGED <<ticker, info, financials, history, eRaises,
                   eps_series, eK, pe_ratios, peYears>>

\* lines 157-167: the earnings series and the price history
EvalEarnings ==
    /\ ePc = "earnings"
    /\ IF eRaises = "financials"
       THEN eResult' = Absent("exception") /\ ePc' = "done" /\ eps_series' = eps_series
       ELSE IF FinEmpty(financials)
       THEN eResult' = Absent("no_statements") /\ ePc' = "done" /\ eps_series' = eps_series
       ELSE IF FirstEpsRow(financials.rows, 1) = 0
       THEN eResult' = Absent("no_eps_line") /\ ePc' = "done" /\ eps_series' = eps_series
       ELSE IF eRaises = "history"
       THEN /\ eResult' = Absent("exception") /\ ePc' = "done"
            /\ eps_series' = EpsSeries(financials)
       ELSE /\ eResult' = eResult /\ ePc' = "years"
            /\ eps_series' = EpsSeries(financials)
    /\ eK' = 1
    /\ UNCHANGED <<ticker, info, financials, history, eRaises,
                   currency, fwd_pe, pe_ratios, peYears>>

\* lines 168-174: one iteration of "for date, eps in eps_series.items()"
EvalYear ==
    /\ ePc = "years" /\ eK <= Len(eps_series)
    /\ pe_ratios' = pe_ratios \o YearRatio(eps_series[eK], history, currency)
    /\ peYears' = IF YearRatio(eps_series[eK], history, currency) = <<>>
                  THEN peYears ELSE Append(peYears, eps_series[eK].year)
    /\ eK' = eK + 1
    /\ UNCHANGED <<ePc, ticker, info, financials, history, eRaises,
                   currency, fwd_pe, eps_series, eResult>>

\* lines 176-196: the guards, the premium and the record
EvalEmit ==
    /\ ePc = "years" /\ eK > Len(eps_series)
    /\ eResult' = Emit(ticker, info, fwd_pe, pe_ratios)
    /\ ePc' = "done"
    /\ UNCHANGED <<ticker, info, financials, history, eRaises,
                   currency, fwd_pe, eps_series, eK, pe_ratios, peYears>>

NextEval ==
    \/ EvalInfo /\ UNCHANGED <<normVars, resVars, rankVars, batchVars>>
    \/ EvalEarnings /\ UNCHANGED <<normVars, resVars, rankVars, batchVars>>
    \/ EvalYear /\ UNCHANGED <<normVars, resVars, rankVars, batchVars>>
    \/ EvalEmit /\ UNCHANGED <<normVars, resVars, rankVars, batchVars>>

InitEvalOnly == InitEval /\ NormIdle /\ ResIdle /\ RankIdle /\ BatchIdle

SpecEval == InitEvalOnly /\ [][NextEval]_vars

\* The stepwise engine and the one-call form used by the batch loop agree.
EvaluateAgreesWithSteps ==
    ePc = "done" =>
        eResult = Evaluate(ticker, [raises |-> eRaises, info |-> info,
                                    financials |-> financials, history |-> history])

Available(field) == field.kind = "num"

\* C3: evaluate is Absent for lack of a multiple exactly when the metadata has
\* neither a forward nor a trailing multiple; with the forward multiple missing
\* or null and a trailing multiple available, the trailing multiple is used
\* and the engine goes on.
C3_TrailingFallback ==
    (ePc # "info" /\ eRaises # "info") =>
        /\ (eResult = Absent("no_multiple"))
              <=> (~Available(info.forwardPE) /\ ~Available(info.trailingPE))
        /\ (~Available(info.forwardPE) /\ Available(info.trailingPE))
              => fwd_pe = info.trailingPE

\* the fiscal years the claim C4 counts: positive earnings and a trading day
CountedYears ==
    { k \in 1..Len(eps_series) :
        eps_series[k].eps > 0 /\ history[eps_series[k].year] # <<>> }

\* the years the engine counts: also a non-zero average price
KeptYears ==
    { k \in CountedYears : AvgClose(history, eps_series[k].year).n # 0 }

\* the average price of the k-th fiscal year, in major units
MajorAvg(k) ==
    IF currency = "GBp"
    THEN Rat(Sum(history[eps_series[k].year]), 100 * Len(history[eps_series[k].year]))
    ELSE Rat(Sum(history[eps_series[k].year]), Len(history[eps_series[k].year]))

RECURSIVE SumOver(_)
\* the sum of (average price / earnings) over a set of fiscal years
SumOver(S) ==
    IF S = {} THEN RInt(0)
    ELSE LET k == CHOOSE x \in S : TRUE
         IN RAdd(RDiv(MajorAvg(k), RInt(eps_series[k].eps)), SumOver(S \ {k}))

MeanOver(S) == RDiv(SumOver(S), RInt(Cardinality(S)))

\* C4 as stated: the emitted historical average is the mean of (average close
\* / earnings) over exactly the years with positive earnings and at least one
\* trading day.
C4_MeanOverCountedYears ==
    (ePc = "done" /\ eResult.kind = "record") =>
        /\ CountedYears # {}
        /\ eResult.AvgHistPE = MeanOver(CountedYears)

\* C4 amended: the mean is taken over exactly the years with positive
\* earnings, at least one trading day and a non-zero average close.
C4_MeanOverKeptYears ==
    (ePc = "done" /\ eResult.kind = "record") =>
        /\ KeptYears # {}
        /\ eResult.AvgHistPE = MeanOver(KeptYears)

\* C4 witness: a profitable year (earnings 2, average close 40) is followed
\* by a loss year with trading days, and the record carries the multiple 20 of
\* the profitable year alone.
C4_Witness ==
    /\ ePc = "done" /\ eResult.kind = "record"
    /\ currency = "USD"
    /\ eps_series = <<[year |-> 2021, eps |-> 2], [year |-> 2022, eps |-> -1]>>
    /\ history[2021] = <<30, 50>> /\ history[2022] = <<30, 50>>
    /\ eResult.AvgHistPE = RInt(20)

\* C5: an emitted record has a strictly positive historical average; with no
\* yearly multiple, or a zero mean, the engine returns Absent.
C5_PositiveAverage ==
    ePc = "done" =>
        /\ eResult.kind = "record" =>
              (eResult.AvgHistPE.n > 0 /\ eResult.AvgHistPE.d > 0)
        /\ pe_ratios = <<>> => eResult.kind = "None"
        /\ (eK > Len(eps_series) /\ eps_series # <<>> /\ pe_ratios = <<>>)
              => eResult = Absent("no_ratios")
        /\ (eK > Len(eps_series) /\ pe_ratios # <<>> /\ RMean(pe_ratios).n = 0)
          => eResult.kind = "None"

\* C5 witness: every year was skipped and the engine returned Absent for it.
C5_Witness ==
    /\ ePc = "done"
    /\ eps_series # <<>>
    /\ pe_ratios = <<>>
    /\ eResult = Absent("no_ratios")

\* C8: with the currency code GBp each yearly multiple is (average price /
\* 100) / earnings, and with any other code average price / earnings.
C8_MinorUnit ==
    \A k \in 1..Len(pe_ratios) :
        LET y == peYears[k]
            e == (CHOOSE x \in Range(eps_series) : x.year = y).eps
            avg == Rat(Sum(history[y]), Len(history[y]))
        IN IF Get(info.currency, Str("USD")).s = "GBp"
           THEN pe_ratios[k] = RDiv(RDiv(avg, RInt(100)), RInt(e))
           ELSE pe_ratios[k] = RDiv(avg, RInt(e))

\* C8 witness: a pence-quoted instrument has had a yearly multiple computed.
C8_Witness ==
    /\ info.currency = Str("GBp")
    /\ pe_ratios # <<>>

(***************************************************************************)
(* run_analysis and the module-level logic of section 5 (one click).       *)
(***************************************************************************)
\* a variant of Progress that reports the 0-based index
ProgressShiftedBack(i, total) == Rat(i, total)

\* "bar.progress((i+1)/total)" in iteration i (0-based)
Progress(i, total) == Rat(i + 1, total)

\* "if res: data.append(res)"
AppendRes(d, res) == IF res.kind = "record" THEN Append(d, res) ELSE d

Suffixes ==
    << <<".", "P", "A">>, <<".", "D", "E">>, <<".", "L">>,
       <<".", "T", "O">>, <<".", "S", "W">>, <<".", "N", "S">> >>

RECURSIVE StripFrom(_, _)
\* the str.replace(suffix, '', regex=False) calls from the k-th suffix on
StripFrom(t, k) ==
    IF k > Len(Suffixes) THEN t
    ELSE StripFrom(Replace(t, Suffixes[k], <<>>), k + 1)

\* a variant of StripSuffixes that leaves the identifier as emitted
KeepSuffixes(t) == t

\* the Ticker column after the loop over the six suffixes
StripSuffixes(t) == StripFrom(t, 1)

\* the table stored in st.session_state['data']
StoredTable(d) ==
    [k \in 1..Len(d) |-> [d[k] EXCEPT !.Ticker = StripSuffixes(d[k].Ticker)]]

\* Fixtures: what the data source holds for one identifier.
FixtureYears == 2021..2023

GoodStatements ==
    [dates |-> <<2023, 2022, 2021>>,
     rows |-> << [label |-> NetIncome, vals |-> <<7, 7, 7>>],
                 [label |-> DilutedEPS, vals |-> <<2, -1, 2>>] >>]

LossStatements ==
    [dates |-> <<2023, 2022, 2021>>,
     rows |-> << [label |-> NetIncome, vals |-> <<7, 7, 7>>],
                 [label |-> DilutedEPS, vals |-> <<-1, -1, 0>>] >>]

GoodHistory == [y \in FixtureYears |->
    IF y = 2021 THEN <<40>> ELSE IF y = 2022 THEN <<30>> ELSE <<50, 60>>]

GoodInfo ==
    [currency |-> Str("GBp"), forwardPE |-> Num(25), trailingPE |-> Num(15),
     shortName |-> Missing]

World(name, raises, inf, fin) ==
    [name |-> name, raises |-> raises, info |-> inf, financials |-> fin,
     history |-> GoodHistory]

WorldFixtures ==
    { World("good", "none", GoodInfo, GoodStatements),
      World("named", "none",
            [GoodInfo EXCEPT !.shortName = Str(<<"A", "c", "m", "e">>),
                             !.currency = Missing],
            GoodStatements),
      World("raises", "history", GoodInfo, GoodStatements),
      World("no_multiple", "none",
            [GoodInfo EXCEPT !.forwardPE = Missing, !.trailingPE = Null],
            GoodStatements),
      World("loss_only", "none", GoodInfo, LossStatements) }

\* the fixtures built so that evaluate has no record to give
AbsentByDesign == {"raises", "no_multiple", "loss_only"}

RawPool ==
    { <<"A">>, <<"A", ".", "L">>, <<"A", ".", "L", ".", "L">>, <<"B", ".", "T", "O">> }

BatchIndices == {"Nasdaq 100 (USA)", "FTSE 100 (UK)", "TSX 60 (Canada)"}

\* the canonical identifiers get_top_tickers can rank for an index
Pool(index_name) ==
    { normalize(r, index_name) :
        r \in { x \in RawPool : ~SkipEntry(x)
                   /\ ~TopSkip(index_name, WikiTicker(x, IndexSuffix(index_name))) } }

\* get_top_tickers returns the keys of a dict: no identifier twice
Selections(index_name) ==
    UNION { { sel \in [1..n -> Pool(index_name)] :
                \A a, b \in 1..n : sel[a] = sel[b] => a = b } :
            n \in 0..MaxSelection }

InitBatch ==
    /\ bPc = "idle"
    /\ idx \in BatchIndices
    /\ top \in Selections(idx)
    /\ worlds \in [1..Len(top) -> WorldFixtures]
    /\ data = <<>>
    /\ bI = 0
    /\ calls = <<>>
    /\ bar = <<>>
    /\ raised = FALSE
    /\ session = <<>>
    /\ message = ""

\* "if top:" fails: st.error
ClickNoList ==
    /\ bPc = "idle" /\ top = <<>>
    /\ message' = "Erreur liste."
    /\ bPc' = "done"
    /\ UNCHANGED <<idx, top, worlds, data, bI, calls, bar, raised, session>>

\* run_analysis(top) is entered: data = [], bar = st.progress(0)
ClickRun ==
    /\ bPc = "idle" /\ top # <<>>
    /\ data' = <<>>
    /\ bar' = <<RInt(0)>>
    /\ bI' = 0
    /\ bPc' = "loop"
    /\ UNCHANGED <<idx, top, worlds, calls, raised, session, message>>

\* one iteration of "for i, t in enumerate(tickers)"
RunItem ==
    /\ bPc = "loop" /\ bI < Len(top)
    /\ calls' = Append(calls, top[bI + 1])
    /\ LET res == Evaluate(top[bI + 1], worlds[bI + 1]) IN
         IF res.kind = "raise"
         THEN /\ raised' = TRUE /\ bPc' = "crashed"
              /\ UNCHANGED <<data, bar, bI>>
         ELSE /\ data' = AppendRes(data, res)
              /\ bar' = Append(bar, Progress(bI, Len(top)))
              /\ bI' = bI + 1
              /\ UNCHANGED <<raised, bPc>>
    /\ UNCHANGED <<idx, top, worlds, session, message>>

\* the loop is over: "return pd.DataFrame(data)"
RunReturn ==
    /\ bPc = "loop" /\ bI >= Len(top)
    /\ bPc' = "returned"
    /\ UNCHANGED <<idx, top, worlds, data, bI, calls, bar, raised, session, message>>

\* "if not df_result.empty": strip the suffixes and store the table
Store ==
    /\ bPc = "returned" /\ data # <<>>
    /\ session' = StoredTable(data)
    /\ bPc' = "stored"
    /\ UNCHANGED <<idx, top, worlds, data, bI, calls, bar, raised, message>>

\* the table is empty: st.warning
WarnEmpty ==
    /\ bPc = "returned" /\ data = <<>>
    /\ message' = "Donnees incompletes."
    /\ bPc' = "done"
    /\ UNCHANGED <<idx, top, worlds, data, bI, calls, bar, raised, session>>

Next ==
    \/ ClickNoList /\ UNCHANGED <<normVars, resVars, rankVars, evalVars>>
    \/ ClickRun /\ UNCHANGED <<normVars, resVars, rankVars, evalVars>>
    \/ RunItem /\ UNCHANGED <<normVars, resVars, rankVars, evalVars>>
    \/ RunReturn /\ UNCHANGED <<normVars, resVars, rankVars, evalVars>>
    \/ Store /\ UNCHANGED <<normVars, resVars, rankVars, evalVars>>
    \/ WarnEmpty /\ UNCHANGED <<normVars, resVars, rankVars, evalVars>>

Init == InitBatch /\ NormIdle /\ ResIdle /\ RankIdle /\ EvalIdle

Spec == Init /\ [][Next]_vars

Returned == bPc \in {"returned", "stored", "done"} /\ top # <<>>

\* the positions of the selection whose fixture yields a record
RecordPositions == { k \in 1..Len(top) : worlds[k].name \notin AbsentByDesign }

\* C1: with K of the N identifiers built to yield Absent, run_analysis
\* returns exactly N-K records, one per other identifier, and never raises;
\* an Absent item does not stop the items after it.
C1_PartialFailureIsolation ==
    /\ ~raised
    /\ Returned =>
          /\ Len(data) = Len(top) - Cardinality((1..Len(top)) \ RecordPositions)
          /\ \A k \in RecordPositions :
                \E j \in 1..Len(data) : data[j].Ticker = top[k]
          /\ Len(calls) = Len(top)

\* C1 witness: the first item was Absent by an exception, a later one gave a
\* record.
C1_Witness ==
    /\ Returned
    /\ Len(top) >= 2
    /\ worlds[1].name = "raises"
    /\ Len(data) = Len(top) - 1

\* C6: evaluate is invoked once per identifier in selection order, and after
\* the i-th item the progress i/N is reported: the reports increase strictly
\* and reach 1 exactly after the last item.
C6_OncePerItemProgress ==
    /\ bPc \in {"loop", "returned", "stored", "done"} /\ top # <<>> =>
          /\ calls = SubSeq(top, 1, bI)
          /\ Len(bar) = bI + 1
          /\ \A i \in 1..bI : bar[i + 1] = Rat(i, Len(top))
          /\ \A i \in 1..bI : bar[i].n * bar[i + 1].d < bar[i + 1].n * bar[i].d
          /\ (bar[Len(bar)] = RInt(1)) <=> (bI = Len(top))
    /\ Returned => calls = top

\* C6 witness: a run over two items, the first Absent, is over.
C6_Witness ==
    /\ Returned
    /\ Len(top) = 2
    /\ worlds[1].name = "no_multiple"
    /\ bar = <<RInt(0), Rat(1, 2), RInt(1)>>

\* C9 as stated: every stored record carries the canonical identifier that
\* was passed to evaluate, and distinct identifiers stay distinct.
C9_IdentifierKept ==
    bPc = "stored" =>
        /\ Len(session) = Len(data)
        /\ \A k \in 1..Len(session) : session[k] = data[k]
        /\ \A a, b \in 1..Len(session) :
              data[a].Ticker # data[b].Ticker => session[a].Ticker # session[b].Ticker

\* t without the suffix u it ends with (t itself when it does not)
Root(t, u) == IF EndsWith(t, u) THEN SubSeq(t, 1, Len(t) - Len(u)) ELSE t

IsSubsequence(a, b) ==
    \E f \in [1..Len(a) -> 1..Len(b)] :
        /\ \A i \in 1..Len(a) : a[i] = b[f[i]]
        /\ \A i, j \in 1..Len(a) : i < j => f[i] < f[j]

\* C9 amended: the stored table has the emitted records in the same order with
\* every field but the identifier unchanged; the identifier field is the
\* canonical identifier with venue suffixes deleted: it has lost the suffix of
\* the index (it is the bare root when the root has no dot), and keeps only
\* characters of the canonical identifier, in order.
C9_OnlyIdentifierStripped ==
    bPc = "stored" =>
        /\ Len(session) = Len(data)
        /\ \A k \in 1..Len(session) :
              /\ [session[k] EXCEPT !.Ticker = data[k].Ticker] = data[k]
              /\ data[k].Ticker \in Range(top)
              /\ IsSubsequence(session[k].Ticker, data[k].Ticker)
              /\ (IndexSuffix(idx) # <<>> /\ EndsWith(data[k].Ticker, IndexSuffix(idx)))
                    => Len(session[k].Ticker) < Len(data[k].Ticker)
              /\ ~Contains(Root(data[k].Ticker, IndexSuffix(idx)), <<".">>)
                    => session[k].Ticker = Root(data[k].Ticker, IndexSuffix(idx))

\* C9 witness: a record of a suffixed identifier has been stored.
C9_Witness ==
    /\ bPc = "stored"
    /\ idx = "FTSE 100 (UK)"
    /\ \E k \in 1..Len(session) :
          data[k].Ticker = <<"A", ".", "L">> /\ session[k].Ticker = <<"A">>

(***************************************************************************)
(* SpecNorm: a raw symbol is normalised, and the result normalised again.  *)
(***************************************************************************)
SymChars == {" ", ".", "T", "O", "L", "A"}

InitNorm ==
    /\ nPc = "raw"
    /\ \E n \in 0..MaxSymLen : nSym \in [1..n -> SymChars]
    /\ nIndex \in Indices
    /\ nOnce = <<>>
    /\ nTwice = <<>>

NormalizeOnce ==
    /\ nPc = "raw"
    /\ nOnce' = normalize(nSym, nIndex)
    /\ nPc' = "once"
    /\ UNCHANGED <<nSym, nIndex, nTwice>>

NormalizeAgain ==
    /\ nPc = "once"
    /\ nTwice' = normalize(nOnce, nIndex)
    /\ nPc' = "twice"
    /\ UNCHANGED <<nSym, nIndex, nOnce>>

NextNorm ==
    \/ NormalizeOnce /\ UNCHANGED <<resVars, rankVars, evalVars, batchVars>>
    \/ NormalizeAgain /\ UNCHANGED <<resVars, rankVars, evalVars, batchVars>>

InitNormOnly == InitNorm /\ ResIdle /\ RankIdle /\ EvalIdle /\ BatchIdle

SpecNorm == InitNormOnly /\ [][NextNorm]_vars

\* C7: for every raw symbol and venue, normalising a normalised identifier
\* changes nothing, and an identifier that already ends with the venue suffix
\* is not given a second one (it is not lengthened and ends with the suffix).
C7_Idempotent ==
    /\ nPc = "twice" => nTwice = nOnce
    /\ (nPc # "raw" /\ IndexSuffix(nIndex) # <<>>) =>
          /\ EndsWith(nOnce, IndexSuffix(nIndex))
          /\ EndsWith(Strip(nSym), IndexSuffix(nIndex)) => Len(nOnce) <= Len(Strip(nSym))
====
